---- MODULE Spec2Model ----
(***************************************************************************)
(* The survey data model (models/tables.py) and the project routes         *)
(* (routes/project/__init__.py) of usaon-benefit-tool as a state machine.  *)
(*                                                                         *)
(* Three specifications share the module's variables:                      *)
(*   Spec       the persisted tables: node and edge rows, written through  *)
(*              create / edit / delete, each write checked against the     *)
(*              table's UNIQUE, CHECK, NOT NULL and FOREIGN KEY rules;     *)
(*   SpecIO     the interpreter importing tables.py (class definitions),   *)
(*              then callers invoking IORelationshipMixin.__io__;          *)
(*   SpecRoute  one HTTP request walking through a project route.          *)
(***************************************************************************)
EXTENDS Integers, Sequences, FiniteSets, TLC

\* ------------------------------------------------------------------ bounds
\* rows inserted, over all node tables and over all edge tables, before the
\* model stops inserting
MaxNodeRows == 2
MaxEdgeRows == 2

\* ------------------------------------------------------------- the schema
SurveyObservingSystem == "SurveyObservingSystem"
SurveyDataProduct == "SurveyDataProduct"
SurveyApplication == "SurveyApplication"
SurveySocietalBenefitArea == "SurveySocietalBenefitArea"
SurveyObservingSystemDataProduct == "SurveyObservingSystemDataProduct"
SurveyDataProductApplication == "SurveyDataProductApplication"
SurveyApplicationSocietalBenefitArea == "SurveyApplicationSocietalBenefitArea"

\* SurveyNode, the union of the four node classes
SurveyNode ==
    {SurveyObservingSystem, SurveyDataProduct, SurveyApplication,
     SurveySocietalBenefitArea}

\* the three association (edge) tables
EdgeTables ==
    {SurveyObservingSystemDataProduct, SurveyDataProductApplication,
     SurveyApplicationSocietalBenefitArea}

\* rows of the survey table (Survey.id); the node rows' survey_id refers here
Surveys == {1, 2}

\* values a form may submit for short_name / societal_benefit_area_id
Names == {"a", "b"}

\* an empty (SQL NULL / Python None) foreign key; ids start at 1
NULL == 0

\* no relationship of that direction is declared on the class
NoRelation == "NoRelation"

\* cls.input_relationships: the edge class behind the attribute, if declared
input_relationships(T) ==
    CASE T = SurveyDataProduct -> SurveyObservingSystemDataProduct
      [] T = SurveyApplication -> SurveyDataProductApplication
      [] T = SurveySocietalBenefitArea -> SurveyApplicationSocietalBenefitArea
      [] OTHER -> NoRelation

\* cls.output_relationships: the edge class behind the attribute, if declared
output_relationships(T) ==
    CASE T = SurveyObservingSystem -> SurveyObservingSystemDataProduct
      [] T = SurveyDataProduct -> SurveyDataProductApplication
      [] T = SurveyApplication -> SurveyApplicationSocietalBenefitArea
      [] OTHER -> NoRelation

\* the node class an edge table's first foreign key (its source) refers to
SourceType(E) ==
    CASE E = SurveyObservingSystemDataProduct -> SurveyObservingSystem
      [] E = SurveyDataProductApplication -> SurveyDataProduct
      [] E = SurveyApplicationSocietalBenefitArea -> SurveyApplication

\* the node class an edge table's second foreign key (its target) refers to
TargetType(E) ==
    CASE E = SurveyObservingSystemDataProduct -> SurveyDataProduct
      [] E = SurveyDataProductApplication -> SurveyApplication
      [] E = SurveyApplicationSocietalBenefitArea -> SurveySocietalBenefitArea

\* the class mixes in SurveyObjectFieldMixin, so its rows carry short_name
HasShortName(T) == T # SurveySocietalBenefitArea

\* the edge table has a criticality_rating column
HasCriticality(E) == E # SurveyApplicationSocietalBenefitArea

VARIABLES
    nodes,      \* nodes[T]: the rows of node table T
    edges,      \* edges[E]: the rows of edge table E
    nextId,     \* nextId[table]: the table's autoincrement counter
    last,       \* the last commit: outcome "ok" or the constraint that failed
                \* it (an IntegrityError), and the edge rows its cascade deleted
    \* -- the interpreter and IORelationshipMixin.__io__
    defined,    \* the model classes whose class statement has run
    phase,      \* "import" while tables.py is executing, then "serving"
    iocache,    \* functools.cache of __io__: class |-> the dictionary stored
    ioret,      \* the last __io__ call: its class, and what it returned or raised
    lookups,    \* lookups[cls]: calls of cls.__io__() so far
    configErrors,   \* RuntimeErrors raised so far, by anything
    served,     \* requests answered so far
    \* -- one request in a project route
    req,        \* the request: route, authenticated session or not, project_id
    pc,         \* where the request is
    calls,      \* the calls the request has made, in order
    status,     \* the HTTP status it ended with (0: not ended)
    handled     \* requests received so far

dbvars == <<nodes, edges, nextId>>
iovars == <<defined, phase, iocache, ioret, lookups, configErrors, served>>
routevars == <<req, pc, calls, status, handled>>
vars == <<nodes, edges, nextId, last, iovars, routevars>>

\* a class that mixes in IORelationshipMixin and declares neither
\* input_relationships nor output_relationships (tables.py has none)
MixinOnly == "MixinOnly"

\* the classes that mix in IORelationshipMixin
Classes == SurveyNode \cup {MixinOnly}

NoCall == [cls |-> "none", raised |-> FALSE, value |-> <<>>]
NoRequest == [route |-> "none", authenticated |-> FALSE, project_id |-> ""]

\* ------------------------------------------------------------------ rows
\* a row of node table T as its columns that matter here
NodeRow(T, id, survey, name, rating) ==
    CASE T = SurveyApplication ->
            [id |-> id, survey_id |-> survey, short_name |-> name,
             performance_rating |-> rating]
      [] T = SurveySocietalBenefitArea ->
            [id |-> id, survey_id |-> survey, societal_benefit_area_id |-> name]
      [] OTHER ->
            [id |-> id, survey_id |-> survey, short_name |-> name]

\* a row of edge table E; source_id / target_id are the table's two foreign
\* key columns in the order SourceType / TargetType give them
EdgeRow(E, id, s, t, crit, perf) ==
    IF HasCriticality(E)
    THEN [id |-> id, source_id |-> s, target_id |-> t,
          criticality_rating |-> crit, performance_rating |-> perf]
    ELSE [id |-> id, source_id |-> s, target_id |-> t,
          performance_rating |-> perf]

\* the column that, with survey_id, forms the node table's UNIQUE key
UniqueKey(T, row) ==
    IF HasShortName(T) THEN row.short_name ELSE row.societal_benefit_area_id

\* ----------------------------------------------------------- constraints
\* the constraint left off the data product table
NodeUniqueOK_NotOnDataProduct(T, row, others) ==
    T # SurveyDataProduct =>
        \A o \in others :
            ~(o.survey_id = row.survey_id /\ UniqueKey(T, o) = UniqueKey(T, row))

\* UniqueConstraint('short_name', 'survey_id') and, for the benefit areas,
\* UniqueConstraint('societal_benefit_area_id', 'survey_id'): both columns
\* are NOT NULL, so two rows collide exactly when both columns agree
NodeUniqueOK(T, row, others) ==
    \A o \in others :
        ~(o.survey_id = row.survey_id /\ UniqueKey(T, o) = UniqueKey(T, row))

\* the application's CHECK written with the edges' lower bound
NodeCheckOK_FromZero(T, row) ==
    T = SurveyApplication =>
        (row.performance_rating >= 0 /\ row.performance_rating < 101)

\* SurveyApplication's CheckConstraint('performance_rating>0 and
\* performance_rating<101'); the other node tables have no CHECK
NodeCheckOK(T, row) ==
    T = SurveyApplication =>
        (row.performance_rating > 0 /\ row.performance_rating < 101)

\* UniqueConstraint(<source column>, <target column>) plus the unique Index on
\* the same pair. Both columns are nullable, and a UNIQUE key with a NULL in
\* it collides with no other row (NULL = NULL is not true in SQL)
EdgeUniqueOK(E, row, others) ==
    \A o \in others :
        ~(/\ row.source_id # NULL
          /\ row.target_id # NULL
          /\ o.source_id = row.source_id
          /\ o.target_id = row.target_id)

\* the edge tables' CheckConstraints: 'criticality_rating>=0 and
\* criticality_rating<=100', 'performance_rating>=0 and performance_rating<=100'
EdgeCheckOK(E, row) ==
    /\ row.performance_rating >= 0
    /\ row.performance_rating <= 100
    /\ HasCriticality(E) =>
          (row.criticality_rating >= 0 /\ row.criticality_rating <= 100)

\* ForeignKey('<node table>.id') on both endpoint columns: a value that is
\* not NULL must be the id of a row of the referenced node table
EdgeForeignKeyOK(E, row, ns) ==
    /\ row.source_id = NULL \/ \E n \in ns[SourceType(E)] : n.id = row.source_id
    /\ row.target_id = NULL \/ \E n \in ns[TargetType(E)] : n.id = row.target_id

\* the constraints of node table T that `row` breaks, the table's other rows
\* given
NodeViolations(T, row, others) ==
    {c \in {"node unique", "node check"} :
        \/ c = "node unique" /\ ~NodeUniqueOK(T, row, others)
        \/ c = "node check" /\ ~NodeCheckOK(T, row)}

\* the constraints of edge table E that `row` breaks
EdgeViolations(E, row, others, ns) ==
    {c \in {"edge unique", "edge check", "edge foreign key"} :
        \/ c = "edge unique" /\ ~EdgeUniqueOK(E, row, others)
        \/ c = "edge check" /\ ~EdgeCheckOK(E, row)
        \/ c = "edge foreign key" /\ ~EdgeForeignKeyOK(E, row, ns)}

Errors ==
    {"node unique", "node check", "edge unique", "edge check", "edge foreign key"}

\* ---------------------------------------------------------------- inputs
\* ratings submitted, as <<criticality_rating, performance_rating>>: each side
\* of each bound of the edge CHECKs
EdgeRatingInputs ==
    {<<-1, 0>>, <<0, 100>>, <<100, 0>>, <<101, 100>>, <<0, -1>>, <<100, 101>>}

\* the pairs among them that the CHECKs accept
ValidEdgeRatings == {<<0, 100>>, <<100, 0>>}

\* performance_rating values submitted for an application: each side of each
\* bound of its CHECK
AppRatingInputs == {0, 1, 100, 101}

\* an application rating the CHECK accepts and no edge of the model carries
MidRating == 50

\* endpoint values submitted: NULL, ids of rows, and ids of no row
EndpointInputs == 0 .. MaxNodeRows

\* the record of a commit
Committed(outcome, cascaded) == [outcome |-> outcome, cascaded |-> cascaded]

RECURSIVE SumOver(_, _)
SumOver(f, S) ==
    IF S = {} THEN 0
    ELSE LET x == CHOOSE y \in S : TRUE IN f[x] + SumOver(f, S \ {x})

\* rows inserted so far into the tables of set S (each counter starts at 1)
Inserted(S) == SumOver(nextId, S) - Cardinality(S)

\* --------------------------------------------------------------- writes
\* db.session.add(<node>) + commit: INSERT into node table T; the id comes
\* from the table's autoincrement counter
CreateNode(T, survey, name, rating) ==
    LET row == NodeRow(T, nextId[T], survey, name, rating)
        bad == NodeViolations(T, row, nodes[T])
    IN
    /\ Inserted(SurveyNode) < MaxNodeRows
    /\ IF bad = {}
       THEN /\ nodes' = [nodes EXCEPT ![T] = @ \cup {row}]
            /\ nextId' = [nextId EXCEPT ![T] = @ + 1]
            /\ last' = Committed("ok", 0)
       ELSE /\ UNCHANGED <<nodes, nextId>>
            /\ \E c \in bad : last' = Committed(c, 0)
    /\ UNCHANGED <<edges, iovars, routevars>>

\* attribute assignment on a loaded node + commit: UPDATE of the row `old`
EditNode(T, old, survey, name, rating) ==
    LET row == NodeRow(T, old.id, survey, name, rating)
        bad == NodeViolations(T, row, nodes[T] \ {old})
    IN
    /\ old \in nodes[T]
    /\ row # old
    /\ IF bad = {}
       THEN /\ nodes' = [nodes EXCEPT ![T] = (@ \ {old}) \cup {row}]
            /\ last' = Committed("ok", 0)
       ELSE /\ UNCHANGED nodes
            /\ \E c \in bad : last' = Committed(c, 0)
    /\ UNCHANGED <<edges, nextId, iovars, routevars>>

\* the cascade left off every input_relationships
CascadesDelete_OutputOnly(T, side) ==
    side = "output" /\ output_relationships(T) # NoRelation

\* the relationship named `side` of node class T carries cascade="all, delete"
CascadesDelete(T, side) ==
    CASE side = "input" -> input_relationships(T) # NoRelation
      [] side = "output" -> output_relationships(T) # NoRelation

\* edge row e of table E outlives the deletion of node n of class T: it is in
\* no collection of n that carries the delete cascade
RowKept(T, n, E, e) ==
    /\ ~(/\ E = output_relationships(T)
         /\ e.source_id = n.id
         /\ CascadesDelete(T, "output"))
    /\ ~(/\ E = input_relationships(T)
         /\ e.target_id = n.id
         /\ CascadesDelete(T, "input"))

\* what the unit of work leaves of edge table E when node n of class T is
\* deleted: a collection with the delete cascade deletes its members, one
\* without it empties their foreign key
EdgesAfterDelete(T, n, E, rows) ==
    LET detach(e) ==
          [e EXCEPT
             !.source_id =
                 IF E = output_relationships(T) /\ @ = n.id THEN NULL ELSE @,
             !.target_id =
                 IF E = input_relationships(T) /\ @ = n.id THEN NULL ELSE @]
    IN {detach(e) : e \in {x \in rows : RowKept(T, n, E, x)}}

\* db.session.delete(<node>) + commit
DeleteNode(T, n) ==
    /\ n \in nodes[T]
    /\ nodes' = [nodes EXCEPT ![T] = @ \ {n}]
    /\ edges' = [E \in EdgeTables |-> EdgesAfterDelete(T, n, E, edges[E])]
    /\ last' = Committed("ok", SumOver([E \in EdgeTables |->
                    Cardinality({e \in edges[E] : ~RowKept(T, n, E, e)})],
                    EdgeTables))
    /\ UNCHANGED <<nextId, iovars, routevars>>

\* db.session.add(<edge>) + commit: INSERT into edge table E
CreateEdge(E, s, t, crit, perf) ==
    LET row == EdgeRow(E, nextId[E], s, t, crit, perf)
        bad == EdgeViolations(E, row, edges[E], nodes)
    IN
    /\ Inserted(EdgeTables) < MaxEdgeRows
    /\ IF bad = {}
       THEN /\ edges' = [edges EXCEPT ![E] = @ \cup {row}]
            /\ nextId' = [nextId EXCEPT ![E] = @ + 1]
            /\ last' = Committed("ok", 0)
       ELSE /\ UNCHANGED <<edges, nextId>>
            /\ \E c \in bad : last' = Committed(c, 0)
    /\ UNCHANGED <<nodes, iovars, routevars>>

\* attribute assignment on a loaded edge + commit: UPDATE of the row `old`
EditEdge(E, old, s, t, crit, perf) ==
    LET row == EdgeRow(E, old.id, s, t, crit, perf)
        bad == EdgeViolations(E, row, edges[E] \ {old}, nodes)
    IN
    /\ old \in edges[E]
    /\ row # old
    /\ IF bad = {}
       THEN /\ edges' = [edges EXCEPT ![E] = (@ \ {old}) \cup {row}]
            /\ last' = Committed("ok", 0)
       ELSE /\ UNCHANGED edges
            /\ \E c \in bad : last' = Committed(c, 0)
    /\ UNCHANGED <<nodes, nextId, iovars, routevars>>

\* db.session.delete(<edge>) + commit
DeleteEdge(E, e) ==
    /\ e \in edges[E]
    /\ edges' = [edges EXCEPT ![E] = @ \ {e}]
    /\ last' = Committed("ok", 0)
    /\ UNCHANGED <<nodes, nextId, iovars, routevars>>

\* <node>.output_relationships.remove(<edge>) or
\* <node>.input_relationships.remove(<edge>) + commit: the cascade is
\* "all, delete" without delete-orphan, so the edge row stays and the foreign
\* key that held it in the collection is set to NULL
DetachEdge(T, n, side, e) ==
    LET E == IF side = "output" THEN output_relationships(T)
                                ELSE input_relationships(T)
        detached == IF side = "output" THEN [e EXCEPT !.source_id = NULL]
                                       ELSE [e EXCEPT !.target_id = NULL]
    IN
    /\ n \in nodes[T]
    /\ E # NoRelation
    /\ e \in edges[E]
    /\ n.id = (IF side = "output" THEN e.source_id ELSE e.target_id)
    /\ edges' = [edges EXCEPT ![E] = (@ \ {e}) \cup {detached}]
    /\ last' = Committed("ok", 0)
    /\ UNCHANGED <<nodes, nextId, iovars, routevars>>

\* ------------------------------------------------- the graph of a survey
\* Spec: nodes and edges written in any order, every endpoint value tried,
\* with ratings the CHECKs accept and one name, so that two nodes of a type
\* are in two surveys
\* the tables as db.create_all() leaves them
EmptyTables ==
    /\ nodes = [T \in SurveyNode |-> {}]
    /\ edges = [E \in EdgeTables |-> {}]
    /\ nextId = [x \in SurveyNode \cup EdgeTables |-> 1]
    /\ last = Committed("ok", 0)

\* tables.py imported, no __io__ call made yet
Imported ==
    /\ defined = SurveyNode
    /\ phase = "serving"
    /\ iocache = <<>>
    /\ ioret = NoCall
    /\ lookups = [c \in Classes |-> 0]
    /\ configErrors = 0
    /\ served = 0

\* no request in flight
Idle ==
    /\ req = NoRequest
    /\ pc = "idle"
    /\ calls = <<>>
    /\ status = 0
    /\ handled = 0

Init == EmptyTables /\ Imported /\ Idle

Next ==
    \/ \E T \in SurveyNode, s \in Surveys : CreateNode(T, s, "a", MidRating)
    \/ \E T \in SurveyNode, s \in Surveys :
         \E old \in nodes[T] : EditNode(T, old, s, "a", MidRating)
    \/ \E T \in SurveyNode : \E n \in nodes[T] : DeleteNode(T, n)
    \/ \E E \in EdgeTables, s \in EndpointInputs, t \in EndpointInputs :
         \E r \in ValidEdgeRatings : CreateEdge(E, s, t, r[1], r[2])
    \/ \E E \in EdgeTables, s \in EndpointInputs, t \in EndpointInputs :
         \E old \in edges[E], r \in ValidEdgeRatings :
            EditEdge(E, old, s, t, r[1], r[2])
    \/ \E E \in EdgeTables : \E e \in edges[E] : DeleteEdge(E, e)

Spec == Init /\ [][Next]_vars

\* ----------------------------------------------------------- node writes
\* SpecNodes: the node tables alone, every (survey, name) tried
NextNodes ==
    \/ \E T \in SurveyNode, s \in Surveys, nm \in Names :
         CreateNode(T, s, nm, MidRating)
    \/ \E T \in SurveyNode, s \in Surveys, nm \in Names :
         \E old \in nodes[T] : EditNode(T, old, s, nm, MidRating)
    \/ \E T \in SurveyNode : \E n \in nodes[T] : DeleteNode(T, n)

SpecNodes == Init /\ [][NextNodes]_vars

\* ------------------------------------------------------- rating writes
\* SpecRatings: the writes that carry a rating, with every rating value tried,
\* on and beyond each bound; applications in one survey, endpoints NULL or
\* the first row
NextRatings ==
    \/ \E nm \in Names, r \in AppRatingInputs :
         CreateNode(SurveyApplication, 1, nm, r)
    \/ \E old \in nodes[SurveyApplication], r \in AppRatingInputs :
         EditNode(SurveyApplication, old, old.survey_id, old.short_name, r)
    \/ \E E \in EdgeTables, s \in {NULL, 1}, t \in {NULL, 1} :
         \E r \in EdgeRatingInputs : CreateEdge(E, s, t, r[1], r[2])
    \/ \E E \in EdgeTables :
         \E old \in edges[E], r \in EdgeRatingInputs :
            EditEdge(E, old, old.source_id, old.target_id, r[1], r[2])

SpecRatings == Init /\ [][NextRatings]_vars

\* ------------------------------------------------------ endpoint writes
\* SpecEndpoints: nodes are created, and edges created, edited and detached
\* from the collections of their nodes, every endpoint value tried
NextEndpoints ==
    \/ \E T \in SurveyNode, s \in Surveys : CreateNode(T, s, "a", MidRating)
    \/ \E E \in EdgeTables, s \in EndpointInputs, t \in EndpointInputs :
         \E r \in ValidEdgeRatings : CreateEdge(E, s, t, r[1], r[2])
    \/ \E E \in EdgeTables, s \in EndpointInputs, t \in EndpointInputs :
         \E old \in edges[E], r \in ValidEdgeRatings :
            EditEdge(E, old, s, t, r[1], r[2])
    \/ \E T \in SurveyNode, side \in {"input", "output"} :
         \E n \in nodes[T] :
            \E e \in UNION {edges[E] : E \in EdgeTables} :
               DetachEdge(T, n, side, e)

SpecEndpoints == Init /\ [][NextEndpoints]_vars

\* -------------------------------------------------------- the link sequence
None == [id |-> NULL]

\* the row a relationship() of an edge resolves its foreign key to: the
\* related node, or None for a NULL key
Related(T, id) ==
    IF \E n \in nodes[T] : n.id = id
    THEN CHOOSE n \in nodes[T] : n.id = id
    ELSE None

\* an edge whose target property answers with its source relationship
target_AsSource(E, e) == Related(SourceType(E), e.source_id)

\* the source and target properties of the three edge classes
source(E, e) == Related(SourceType(E), e.source_id)

target(E, e) == Related(TargetType(E), e.target_id)

\* the edges of table E in the loaded graph of survey S: the
\* output_relationships of the nodes of S
OutputRelationships(S, E) ==
    {e \in edges[E] : source(E, e) # None /\ source(E, e).survey_id = S}

\* the orders in which a collection can come out of the database: the
\* relationship() declarations give no order_by
Orderings(rows) ==
    {p \in [1 .. Cardinality(rows) -> rows] :
        \A i, j \in DOMAIN p : i # j => p[i] # p[j]}

\* the loaded graphs of survey S: one collection per stage, in any order
Loaded(S) ==
    {<<p1, p2, p3>> :
        p1 \in Orderings(OutputRelationships(S, SurveyObservingSystemDataProduct)),
        p2 \in Orderings(OutputRelationships(S, SurveyDataProductApplication)),
        p3 \in Orderings(OutputRelationships(S, SurveyApplicationSocietalBenefitArea))}

\* the stages of the diagram, first to last
Stages ==
    <<SurveyObservingSystemDataProduct, SurveyDataProductApplication,
      SurveyApplicationSocietalBenefitArea>>

\* a collection in insertion order: the autoincremented ids ascending
RECURSIVE InsertionOrder(_)
InsertionOrder(rows) ==
    IF rows = {} THEN <<>>
    ELSE LET first == CHOOSE r \in rows : \A q \in rows : r.id <= q.id
         IN <<first>> \o InsertionOrder(rows \ {first})

\* the link record of edge e of table E
Link(E, e) ==
    [source |-> <<SourceType(E), source(E, e).id>>,
     target |-> <<TargetType(E), target(E, e).id>>,
     weight |-> e.performance_rating]

\* the links of one stage
StageLinks(E, collection) ==
    LET ordered == InsertionOrder({collection[i] : i \in DOMAIN collection})
    IN [i \in DOMAIN ordered |-> Link(E, ordered[i])]

\* sankey(response): the links of the three stages, one after the other
sankey(response) ==
    StageLinks(Stages[1], response[1]) \o StageLinks(Stages[2], response[2])
        \o StageLinks(Stages[3], response[3])

\* ------------------------------------------- IORelationshipMixin.__io__
\* lookups of one class the model follows, and requests it answers
MaxLookups == 2
MaxServed == 2

\* a lookup that asks only whether the class has any relationship at all
hasattr_AnyRelationship(T, key) ==
    input_relationships(T) # NoRelation \/ output_relationships(T) # NoRelation

\* hasattr(cls, 'input_relationships') / hasattr(cls, 'output_relationships')
hasattr(T, key) ==
    CASE key = "input" -> input_relationships(T) # NoRelation
      [] key = "output" -> output_relationships(T) # NoRelation

\* the dictionary the body of __io__ builds for class T: cls.<key>_relationships
\* .mapper.class_ under each key whose attribute the class has
IORelationship(T) ==
    [key \in {k \in {"input", "output"} : hasattr(T, k)} |->
        IF key = "input" THEN input_relationships(T) ELSE output_relationships(T)]

\* a class statement that validates the relationships as the class is created
DefineClass_FailFast(T) ==
    /\ phase = "import"
    /\ T \notin defined
    /\ defined' = defined \cup {T}
    /\ configErrors' = configErrors +
           (IF input_relationships(T) = NoRelation
               /\ output_relationships(T) = NoRelation THEN 1 ELSE 0)
    /\ UNCHANGED <<phase, iocache, ioret, lookups, served>>
    /\ UNCHANGED <<dbvars, last, routevars>>

\* a class statement of a model runs: the class exists from here on. Neither
\* the mixin nor the class body calls __io__ or checks the relationships
DefineClass(T) ==
    /\ phase = "import"
    /\ T \notin defined
    /\ defined' = defined \cup {T}
    /\ UNCHANGED <<phase, iocache, ioret, lookups, configErrors, served>>
    /\ UNCHANGED <<dbvars, last, routevars>>

\* the import of tables.py ends and the application starts answering
FinishImport ==
    /\ phase = "import"
    /\ SurveyNode \subseteq defined
    /\ phase' = "serving"
    /\ UNCHANGED <<defined, iocache, ioret, lookups, configErrors, served>>
    /\ UNCHANGED <<dbvars, last, routevars>>

\* cls.__io__(): @cache answers a class it has stored; otherwise the body
\* runs, raises RuntimeError on an empty dictionary (functools.cache stores
\* nothing for a call that raises) and else stores and returns the dictionary
CallIO(T) ==
    /\ phase = "serving"
    /\ T \in defined
    /\ lookups[T] < MaxLookups
    /\ lookups' = [lookups EXCEPT ![T] = @ + 1]
    /\ IF T \in DOMAIN iocache
       THEN /\ ioret' = [cls |-> T, raised |-> FALSE, value |-> iocache[T]]
            /\ UNCHANGED <<iocache, configErrors>>
       ELSE LET io == IORelationship(T) IN
            IF DOMAIN io = {}
            THEN /\ ioret' = [cls |-> T, raised |-> TRUE, value |-> <<>>]
                 /\ configErrors' = configErrors + 1
                 /\ UNCHANGED iocache
            ELSE /\ ioret' = [cls |-> T, raised |-> FALSE, value |-> io]
                 /\ iocache' = (T :> io) @@ iocache
                 /\ UNCHANGED configErrors
    /\ UNCHANGED <<defined, phase, served>>
    /\ UNCHANGED <<dbvars, last, routevars>>

\* a request that looks no class up is answered
Serve ==
    /\ phase = "serving"
    /\ served < MaxServed
    /\ served' = served + 1
    /\ UNCHANGED <<defined, phase, iocache, ioret, lookups, configErrors>>
    /\ UNCHANGED <<dbvars, last, routevars>>

\* SpecIO: the interpreter imports the model classes, MixinOnly among them or
\* not, in any order; then requests are answered and lookups made
InitIO ==
    /\ EmptyTables
    /\ Idle
    /\ defined = {}
    /\ phase = "import"
    /\ iocache = <<>>
    /\ ioret = NoCall
    /\ lookups = [c \in Classes |-> 0]
    /\ configErrors = 0
    /\ served = 0

NextIO ==
    \/ \E T \in Classes : DefineClass(T)
    \/ FinishImport
    \/ \E T \in Classes : CallIO(T)
    \/ Serve

SpecIO == InitIO /\ [][NextIO]_vars

\* ------------------------------------------------------ project routes
\* requests the model follows
MaxRequests == 2

\* the three view functions of project_bp
Routes == {"view_project", "view_project_overview", "edit_project"}

\* <string:project_id> values requested: the ids of the two surveys and of none
ProjectIds == {"1", "2", "3"}

\* the primary key a project_id string stands for
ToId(pid) == CASE pid = "1" -> 1 [] pid = "2" -> 2 [] pid = "3" -> 3

\* a blueprint whose edit view lacks the decorator
login_required_NotOnEdit(route, authenticated) ==
    authenticated \/ route = "edit_project"

\* @login_required on the view: the view runs only for an authenticated
\* session
login_required(route, authenticated) == authenticated

\* db.get_or_404(Survey, project_id): the row, or abort(404)
get_or_404(pid) == IF ToId(pid) \in Surveys THEN "found" ELSE "NotFound"

\* what reading project.response gives. The Survey class of tables.py declares
\* no such attribute, the routes read it: an AttributeError, or, where another
\* module supplies it, None or the loaded graph
ResponseOutcomes == {"AttributeError", "None", "loaded"}

\* the route passes project.response to sankey() whatever it is
\* (view_project), or only when it is truthy
CallsSankey(route, response) ==
    route = "view_project" \/ response = "loaded"

Finished(code) == pc' = "done" /\ status' = code

\* a GET arrives at one of the routes
Receive(route, authenticated, pid) ==
    /\ pc \in {"idle", "done"}
    /\ handled < MaxRequests
    /\ handled' = handled + 1
    /\ req' = [route |-> route, authenticated |-> authenticated,
               project_id |-> pid]
    /\ pc' = "login_required"
    /\ calls' = <<>>
    /\ status' = 0
    /\ UNCHANGED <<dbvars, last, iovars>>

\* the decorator: an anonymous request is answered by the login manager
\* (401, or 302 to the login view) and the view never runs
LoginRequired ==
    /\ pc = "login_required"
    /\ IF login_required(req.route, req.authenticated)
       THEN pc' = "view" /\ UNCHANGED status
       ELSE \E code \in {401, 302} : Finished(code)
    /\ UNCHANGED <<req, calls, handled, dbvars, last, iovars>>

\* project = db.get_or_404(Survey, project_id)
GetOr404 ==
    /\ pc = "view"
    /\ calls' = Append(calls, "get_or_404")
    /\ IF get_or_404(req.project_id) = "found"
       THEN pc' = "args" /\ UNCHANGED status
       ELSE Finished(404)
    /\ UNCHANGED <<req, handled, dbvars, last, iovars>>

\* the arguments of render_template are evaluated: project.response is read
\* and sankey() called on it; what sankey does with None is not in this
\* module: it raises or it returns
TemplateArgs(response) ==
    /\ pc = "args"
    /\ IF response = "AttributeError"
       THEN Finished(500) /\ UNCHANGED calls
       ELSE IF CallsSankey(req.route, response)
            THEN /\ calls' = Append(calls, "sankey")
                 /\ IF response = "None"
                    THEN \/ Finished(500)
                         \/ pc' = "render" /\ UNCHANGED status
                    ELSE pc' = "render" /\ UNCHANGED status
            ELSE pc' = "render" /\ UNCHANGED <<calls, status>>
    /\ UNCHANGED <<req, handled, dbvars, last, iovars>>

\* render_template(...) is called and its page returned
RenderTemplate ==
    /\ pc = "render"
    /\ calls' = Append(calls, "render_template")
    /\ Finished(200)
    /\ UNCHANGED <<req, handled, dbvars, last, iovars>>

NextRoute ==
    \/ \E route \in Routes, authenticated \in BOOLEAN, pid \in ProjectIds :
         Receive(route, authenticated, pid)
    \/ LoginRequired
    \/ GetOr404
    \/ \E response \in ResponseOutcomes : TemplateArgs(response)
    \/ RenderTemplate

SpecRoute == Init /\ [][NextRoute]_vars

\* ================================================================ claims
\* the node row with primary key `id` in table T
NodeById(T, id) == CHOOSE n \in nodes[T] : n.id = id

\* edge row e of table E has node n of class T as its source or as its target
Incident(T, n, E, e) ==
    \/ SourceType(E) = T /\ e.source_id = n.id
    \/ TargetType(E) = T /\ e.target_id = n.id

\* ---------------------------------------------------------------- C1
\* some row of `others` already holds (survey, name) as its unique key
KeyTaken(T, survey, name, others) ==
    \E o \in others : o.survey_id = survey /\ UniqueKey(T, o) = name

\* no two rows of one node table and one survey share their name: short_name
\* for observing systems, data products and applications; benefit areas carry
\* no short_name, and the column their table keys on, with survey_id, is
\* societal_benefit_area_id
C1_NoDuplicateName ==
    \A T \in SurveyNode : \A a, b \in nodes[T] :
        (a # b /\ a.survey_id = b.survey_id) =>
            UniqueKey(T, a) # UniqueKey(T, b)

\* a create or an edit that would give a second row the (survey, name) of
\* another fails on the unique constraint and changes no table
C1_DuplicateRejected ==
    \A T \in SurveyNode, s \in Surveys, nm \in Names :
        /\ (KeyTaken(T, s, nm, nodes[T]) /\ CreateNode(T, s, nm, MidRating)) =>
              (UNCHANGED dbvars /\ last'.outcome = "node unique")
        /\ \A old \in nodes[T] :
              (/\ KeyTaken(T, s, nm, nodes[T] \ {old})
               /\ EditNode(T, old, s, nm, MidRating)) =>
                  (UNCHANGED dbvars /\ last'.outcome = "node unique")

\* C1: in every reachable state no two nodes of one type and one Survey have
\* the same short_name (for benefit areas: the same societal_benefit_area_id),
\* and every create or edit that would make such a pair is rejected
C1_ShortNameUnique == []C1_NoDuplicateName /\ [][C1_DuplicateRejected]_vars

\* two rows of one table share a short_name across two surveys, and the edit
\* that would have moved one into the other's survey was just rejected
C1_Witness ==
    /\ last.outcome = "node unique"
    /\ \E T \in SurveyNode \ {SurveySocietalBenefitArea} :
         \E a, b \in nodes[T] :
            a.short_name = b.short_name /\ a.survey_id # b.survey_id

\* ---------------------------------------------------------------- C2
\* C2: within each edge table no two distinct rows have the same
\* (source id, target id) pair
C2_PairUnique ==
    \A E \in EdgeTables : \A a, b \in edges[E] :
        a # b => <<a.source_id, a.target_id>> # <<b.source_id, b.target_id>>

\* what the unique constraint does keep: no two rows share a pair both of
\* whose ids are present
PairUniqueWhereNotNull ==
    \A E \in EdgeTables : \A a, b \in edges[E] :
        (a # b /\ a.source_id # NULL /\ a.target_id # NULL) =>
            <<a.source_id, a.target_id>> # <<b.source_id, b.target_id>>

\* ---------------------------------------------------------------- C3
\* the range of an edge's criticality_rating and performance_rating, and the
\* range of an application's performance_rating
EdgeRange == 0 .. 100
AppRange == 1 .. 100

\* every stored rating lies in its range
C3_StoredInRange ==
    /\ \A E \in EdgeTables : \A e \in edges[E] :
          /\ e.performance_rating \in EdgeRange
          /\ HasCriticality(E) => e.criticality_rating \in EdgeRange
    /\ \A a \in nodes[SurveyApplication] : a.performance_rating \in AppRange

\* the ratings submitted for an edge of table E are not all in range
EdgeRatingBad(E, crit, perf) ==
    perf \notin EdgeRange \/ (HasCriticality(E) /\ crit \notin EdgeRange)

\* the commit failed and changed no table
Rejected == UNCHANGED dbvars /\ last'.outcome # "ok"

\* a write that submits a rating outside its range fails and changes no table:
\* a step is a rejection, or it is no write of an out-of-range rating
C3_OutOfRangeRejected ==
    \/ Rejected
    \/ /\ \A E \in EdgeTables, s \in {NULL, 1}, t \in {NULL, 1} :
            \A r \in EdgeRatingInputs :
               EdgeRatingBad(E, r[1], r[2]) => ~CreateEdge(E, s, t, r[1], r[2])
       /\ \A E \in EdgeTables : \A old \in edges[E], r \in EdgeRatingInputs :
               EdgeRatingBad(E, r[1], r[2]) =>
                  ~EditEdge(E, old, old.source_id, old.target_id, r[1], r[2])
       /\ \A nm \in Names, r \in AppRatingInputs :
               r \notin AppRange => ~CreateNode(SurveyApplication, 1, nm, r)
       /\ \A old \in nodes[SurveyApplication], r \in AppRatingInputs :
               r \notin AppRange =>
                  ~EditNode(SurveyApplication, old, old.survey_id,
                            old.short_name, r)

\* C3: a write of a rating outside [0,100] (edge criticality or performance)
\* or outside (0,100] (application performance) is rejected and leaves the
\* tables unchanged, so every stored rating lies in its range
C3_RatingsChecked == []C3_StoredInRange /\ [][C3_OutOfRangeRejected]_vars

\* an edge holds performance 0 and criticality 100, an application holds 100,
\* and the application write that submitted 0 was just rejected by its CHECK
C3_Witness ==
    /\ last.outcome = "node check"
    /\ \E a \in nodes[SurveyApplication] : a.performance_rating = 100
    /\ \E E \in EdgeTables \ {SurveyApplicationSocietalBenefitArea} :
         \E e \in edges[E] :
            e.performance_rating = 0 /\ e.criticality_rating = 100

\* ---------------------------------------------------------------- C4
\* C4: the source node and the target node of every edge belong to the same
\* Survey
C4_SameSurvey ==
    \A E \in EdgeTables : \A e \in edges[E] :
        (/\ \E n \in nodes[SourceType(E)] : n.id = e.source_id
         /\ \E n \in nodes[TargetType(E)] : n.id = e.target_id) =>
            NodeById(SourceType(E), e.source_id).survey_id
                = NodeById(TargetType(E), e.target_id).survey_id

\* ---------------------------------------------------------------- C5
\* every endpoint an edge row names is the id of a stored node row
C5_NoDangling ==
    \A E \in EdgeTables : \A e \in edges[E] :
        /\ e.source_id # NULL => \E n \in nodes[SourceType(E)] : n.id = e.source_id
        /\ e.target_id # NULL => \E n \in nodes[TargetType(E)] : n.id = e.target_id

\* a step that removes node n removes exactly the edge rows incident to n and
\* leaves every other edge row and every other node row as it was
C5_Cascade ==
    \A T \in SurveyNode : \A n \in nodes[T] :
        nodes'[T] = nodes[T] \ {n} =>
            /\ \A E \in EdgeTables :
                  edges'[E] = {e \in edges[E] : ~Incident(T, n, E, e)}
            /\ \A T2 \in SurveyNode \ {T} : nodes'[T2] = nodes[T2]

\* C5: deleting a node deletes, in the same commit, every edge that has it as
\* source or target and nothing else, so no edge ever names a deleted node
C5_DeleteCascades == []C5_NoDangling /\ [][C5_Cascade]_vars

\* a data product was just deleted and the commit removed two edge rows with
\* it: its one input edge and its one output edge
C5_Witness ==
    /\ last = Committed("ok", 2)
    /\ nodes[SurveyDataProduct] = {}
    /\ nextId[SurveyObservingSystemDataProduct] = 2
    /\ nextId[SurveyDataProductApplication] = 2
    /\ \E T \in SurveyNode : nodes[T] # {}

\* ---- C6
\* the place of table E among the stages
StageOf(E) == CHOOSE i \in DOMAIN Stages : Stages[i] = E

\* the edges stored for the graph of survey S, each with its table: those
\* whose source_id is the id of a node of S
StoredEdges(S) ==
    UNION {{<<E, e>> : e \in {d \in edges[E] :
                \E n \in nodes[SourceType(E)] :
                    n.id = d.source_id /\ n.survey_id = S}} :
           E \in EdgeTables}

\* edge x comes before edge y: an earlier stage, or the same stage and
\* inserted earlier
Before(x, y) ==
    \/ StageOf(x[1]) < StageOf(y[1])
    \/ x[1] = y[1] /\ x[2].id < y[2].id

\* the place of edge x in the sequence
Rank(S, x) == 1 + Cardinality({y \in StoredEdges(S) : Before(y, x)})

ExpectedKeys(T) ==
    CASE T = SurveyObservingSystem -> {"output"}
      [] T = SurveyDataProduct -> {"input", "output"}
      [] T = SurveyApplication -> {"input", "output"}
      [] T = SurveySocietalBenefitArea -> {"input"}
      [] OTHER -> {}

\* what a call returned: for a node type a mapping with exactly its keys, each
\* naming the related edge class; for the type with neither relationship
\* nothing but the error; an empty mapping never
C8_Returned ==
    ioret.cls # "none" =>
        IF ExpectedKeys(ioret.cls) = {}
        THEN ioret.raised
        ELSE /\ ~ioret.raised
             /\ DOMAIN ioret.value = ExpectedKeys(ioret.cls)
             /\ \A key \in DOMAIN ioret.value : ioret.value[key] \in EdgeTables

\* each call on the type with neither relationship raises, the first as the
\* later ones: nothing is kept for it that a later call could return
C8_RaisesEveryCall ==
    lookups'[MixinOnly] # lookups[MixinOnly] =>
        /\ ioret' = [cls |-> MixinOnly, raised |-> TRUE, value |-> <<>>]
        /\ configErrors' = configErrors + 1
        /\ MixinOnly \notin DOMAIN iocache'

\* C8: __io__ of a node type returns a mapping with an 'input' entry exactly
\* when the type declares input_relationships and an 'output' entry exactly
\* when it declares output_relationships; for a type with neither it raises on
\* every call and never returns an empty mapping
C8_IOKeys == []C8_Returned /\ [][C8_RaisesEveryCall]_vars

\* every node type has been looked up and is held by the cache, and the type
\* with neither relationship has been called twice, the second call raising too
C8_Witness ==
    /\ DOMAIN iocache = SurveyNode
    /\ lookups[MixinOnly] = 2
    /\ ioret.cls = MixinOnly

\* ---- C9
\* the statement as written: once the misconfigured class is defined and the
\* import is over, the configuration error has been raised
C9_FailsAtStartup ==
    (MixinOnly \in defined /\ phase = "serving") => configErrors > 0

\* C9 (as the code has it): a type with neither relationship raises its
\* configuration error when __io__ is called on it and at no other moment:
\* the errors raised are exactly the calls made on that type, so the class
\* statement raises nothing and requests are served before any error
C9_FailsAtLookup ==
    /\ configErrors = lookups[MixinOnly]
    /\ (configErrors > 0 => MixinOnly \in defined /\ phase = "serving")

\* the misconfigured class is defined, requests were served, and only then a
\* lookup on it raised
C9_Witness ==
    /\ MixinOnly \in defined
    /\ served = MaxServed
    /\ configErrors = 1
    /\ ioret = [cls |-> MixinOnly, raised |-> TRUE, value |-> <<>>]

\* ---- C10
\* how many times a step occurs in the calls of the request
RECURSIVE Count(_, _)
Count(seq, x) ==
    IF seq = <<>> THEN 0
    ELSE (IF Head(seq) = x THEN 1 ELSE 0) + Count(Tail(seq), x)

\* the project ids that name a Survey
ExistingIds == {"1", "2"}

\* C10: on each of the three routes a request without an authenticated
\* session never reaches the Survey fetch or the rendering; an authenticated
\* request for an id that matches no Survey ends in 404 after one fetch, with
\* no aggregation, no rendering and no retry; only an authenticated request for
\* an existing Survey is rendered
C10_RoutesGuarded ==
    /\ ~req.authenticated => calls = <<>> /\ status \in {0, 401, 302}
    /\ (req.authenticated /\ req.project_id \notin ExistingIds /\ pc = "done")
          => status = 404 /\ calls = <<"get_or_404">>
    /\ (req.authenticated /\ req.project_id \notin ExistingIds)
          => Count(calls, "sankey") = 0 /\ Count(calls, "render_template") = 0
    /\ Count(calls, "get_or_404") <= 1
    /\ (Count(calls, "render_template") > 0 \/ status = 200)
          => req.authenticated /\ req.project_id \in ExistingIds

\* an authenticated request for the edit page of a project that does not
\* exist has been answered
C10_Witness ==
    /\ req = [route |-> "edit_project", authenticated |-> TRUE,
              project_id |-> "3"]
    /\ pc = "done"
    /\ status = 404

\* ---- C11
\* C11: after any sequence of edge creations, edits and detachments, every
\* stored edge of each edge table has a source and a target: neither foreign
\* key is empty and the source and target accessors return a node
C11_BothEndpoints ==
    \A E \in EdgeTables : \A e \in edges[E] :
        /\ e.source_id # NULL
        /\ e.target_id # NULL
        /\ source(E, e) # None
        /\ target(E, e) # None

====
